---- MODULE Spec2Model ----
(***************************************************************************)
(* Model of the news cache (web/cache.py: NewsCache) and of the teaser     *)
(* allocation (web/services.py: NewsRanker, TeaserService) of              *)
(* traffic-arbitration.                                                    *)
(*                                                                         *)
(* Spec       the cache under concurrent get_previews callers, spawned     *)
(*            background refresh threads and force_update callers.         *)
(* SpecAlloc  one call of TeaserService.get_teasers_for_widgets, step by   *)
(*            step, for every request and snapshot within the bounds.      *)
(***************************************************************************)
EXTENDS Integers, Sequences, FiniteSets, TLC

(* ---------------------------- bounds ----------------------------------- *)

\* number of request threads; each makes one get_previews call
NumReaders == 2
\* number of threads calling force_update
NumForcers == 1
\* ttl_seconds, scaled down
TTL == 1
\* number of clock ticks after the start
MaxTicks == 1

\* preview ids are 1..MaxId
MaxId == 2
\* longest snapshot handed to the allocator
MaxSnapLen == 3
\* largest quantity requested for one widget
MaxQty == 2

(* ---------------------------- values ----------------------------------- *)

Item(i, c) == [id |-> i, category |-> c]

\* a row of the refresh query: the preview's columns, the publication date
\* of its article and one category code of that article
Row(i, c, d) == [id |-> i, category |-> c, publication_date |-> d]

\* what the joined tables can hold when the query runs (one row per preview
\* and category of its article)
StoreTables ==
    { { Row(2, "b", 2), Row(1, "a", 1) },
      { Row(1, "b", 1) } }

\* variant of QueryResults: the query without its order_by
QueryResultsUnordered(T) ==
    { q \in [1..Cardinality(T) -> T] :
        \A x, y \in 1..Cardinality(T) : q[x] = q[y] => x = y }

\* lines 65-85: the rows of T ordered by Article.source_datetime descending;
\* rows of equal date come in any order
QueryResults(T) ==
    { q \in [1..Cardinality(T) -> T] :
        /\ \A x, y \in 1..Cardinality(T) : q[x] = q[y] => x = y
        /\ \A x, y \in 1..Cardinality(T) :
              x < y => q[x].publication_date >= q[y].publication_date }

\* results the refresh query can return, whatever the store holds at that
\* moment
StoreContents == UNION { QueryResults(T) : T \in StoreTables }

\* the clock starts at a moment when the empty initial cache is stale
StartTime == TTL + 1
MaxTime == StartTime + MaxTicks

\* every get_previews call starts at most one background thread
MaxSpawns == NumReaders

Readers == { [kind |-> "reader", n |-> i] : i \in 1..NumReaders }
Bg      == { [kind |-> "bg", n |-> i] : i \in 1..MaxSpawns }
Forcers == { [kind |-> "force", n |-> i] : i \in 1..NumForcers }
Updaters == Bg \cup Forcers
Threads == Readers \cup Updaters
NoThread == [kind |-> "none", n |-> 0]

\* list objects: the lists are Python objects shared by reference
Refs == 1..(1 + NumReaders + MaxSpawns + NumForcers)
NoRef == 0

VARIABLES
    now,            \* time.time()
    session_maker,  \* NewsCache.session_maker is set
    heap,           \* list object -> its elements
    previews,       \* NewsCache.previews (a reference to a list object)
    last_updated,   \* NewsCache.last_updated
    update_lock,    \* NewsCache.update_lock: the holder, or NoThread
    pc,             \* position of every thread
    seen_lu,        \* last_updated as read by the reader's TTL check
    ret,            \* the list object the reader's last call returned
    nspawned,       \* background threads started so far
    observed,       \* per background thread: seen_lu of the spawning call
    rows,           \* per updater: all_previews_data
    newp,           \* per updater: new_previews (a reference)
    idx,            \* per updater: position of the build loop
    exc,            \* per updater: an exception is propagating
    pre,            \* per updater: previews and last_updated at refresh start
    bg_refreshes,   \* history: store queries run by background threads, per
                    \* value of last_updated their spawning call had read
    installed       \* history: contents of every snapshot installed

\* one call of get_teasers_for_widgets
VARIABLES
    snapshot,            \* what cache.get_previews() returned to the ranker
    req_widgets,         \* request_data.widgets, in the order of its keys
    req_category,        \* request_data.category
    seen_ids_page,       \* request_data.seen_ids_page
    seen_ids_long_term,  \* request_data.seen_ids_long_term
    apc,                 \* position of the call
    all_teaser_items,    \* the ranker's result
    available_teasers,   \* pool 1
    reusable_teasers,    \* pool 2
    available_pos,       \* items available_iter has yielded
    reusable_pos,        \* items reusable_iter has yielded
    w_idx,               \* the widget the outer loop is at
    q_done,              \* rounds of the inner loop done for that widget
    response_widgets,    \* widget name -> item
    newly_served,        \* response_newly_served_ids
    served_on_this_request,
    response,            \* the response, once the call has returned
    assign_log,          \* history: the assignments made, in order
    slug_written         \* cached items whose preview_obj.slug the call set

\* one call of NewsRanker.get_ranked_previews
VARIABLES
    rk_limit,            \* limit (NoLimit for None)
    rk_offset,           \* offset
    rk_result,           \* the list returned
    rk_pc                \* position of the call

rankVars == << rk_limit, rk_offset, rk_result, rk_pc >>

\* one call of inject_in_article_teasers
VARIABLES
    raw_paragraphs,      \* the content, split at its <br> tags
    paragraphs,          \* the stripped non-empty parts
    inj_i,               \* paragraphs the loop has gone through
    teaser_counter,
    processed_blocks,
    inj_pc               \* position of the call

injectVars == << raw_paragraphs, paragraphs, inj_i, teaser_counter,
                 processed_blocks, inj_pc >>

\* step 4 of one run of process_source, and the read of the next run
VARIABLES
    ps_pc,               \* position of process_source
    links,               \* what get_unprocessed_article_links_for_source gave
    task_pc,             \* per link: position of task(link)
    outcome,             \* per link: how scrape_article(link) ended
    results,             \* scrape_articles: results
    results_lock,        \* scrape_articles: lock, its holder or NoLink
    parsed_articles,     \* what scrape_articles returned
    db_processed,        \* committed: links with is_processed = True
    db_articles,         \* committed: links that have an external article
    tx_processed,        \* the session's uncommitted is_processed updates
    tx_articles,         \* the session's uncommitted article inserts
    commits,             \* history: what each commit made durable
    links_next_run       \* the unprocessed links the next run reads

scrapeVars == << ps_pc, links, task_pc, outcome, results, results_lock,
                 parsed_articles, db_processed, db_articles, tx_processed,
                 tx_articles, commits, links_next_run >>

\* one DriverPool, the threads that take and return drivers, and the thread
\* that uses the pool as a context manager
VARIABLES
    lazy,                \* the pool is the DriverPool that has _initialized
    max_drivers,         \* DriverPool.max_drivers
    initialized,         \* DriverPool._initialized
    pool_q,              \* DriverPool.pool, a FIFO queue of drivers
    pool_lock,           \* DriverPool.lock: its holder, or NoHolder
    dp_pc,               \* per thread: its position
    held,                \* per thread: the driver get_driver returned to it
    fill_k,              \* per thread: rounds of the loop of _initialize_pool
    quits,               \* per driver created: calls of its quit()
    fills                \* history: drivers put by each run of that loop

poolVars == << lazy, max_drivers, initialized, pool_q, pool_lock, dp_pc, held,
               fill_k, quits, fills >>

\* the state of the components other than the cache and the allocator
sideVars == << rankVars, injectVars, scrapeVars, poolVars >>

\* per component, the other components of sideVars
besidesRank == << injectVars, scrapeVars, poolVars >>
besidesInject == << rankVars, scrapeVars, poolVars >>
besidesScrape == << rankVars, injectVars, poolVars >>
besidesPool == << rankVars, injectVars, scrapeVars >>

cacheAll == << now, session_maker, heap, previews, last_updated,
               update_lock, pc, seen_lu, ret, nspawned, observed,
               rows, newp, idx, exc, pre, bg_refreshes, installed >>

\* what a call of the allocator leaves alone: its request, and the other
\* components
requestVars == << snapshot, req_widgets, req_category, seen_ids_page,
                  seen_ids_long_term, sideVars >>

allocVars == << requestVars, apc, all_teaser_items, available_teasers,
                reusable_teasers, available_pos, reusable_pos, w_idx, q_done,
                response_widgets, newly_served, served_on_this_request,
                response, assign_log, slug_written >>

vars == << cacheAll, allocVars >>

\* the variables of the allocator themselves
allocOwn == << snapshot, req_widgets, req_category, seen_ids_page,
              seen_ids_long_term, apc, all_teaser_items, available_teasers,
              reusable_teasers, available_pos, reusable_pos, w_idx, q_done,
              response_widgets, newly_served, served_on_this_request,
              response, assign_log, slug_written >>

cacheVars == << heap, previews, last_updated >>
readerVars == << seen_lu, ret >>
updLocals == << rows, newp, idx, exc, pre >>
history == << bg_refreshes, installed >>

(* ---------------------------- helpers ---------------------------------- *)

UsedRefs ==
    {previews} \cup { ret[r] : r \in Readers } \cup { newp[t] : t \in Updaters }

\* a list object nobody references (a fresh allocation)
NewRef == CHOOSE x \in Refs \ UsedRefs : \A y \in Refs \ UsedRefs : x <= y

Expired(lu) == now - lu > TTL

\* reference counting: a list object nobody references any more is dropped
Collect(h, used) == [x \in Refs |-> IF x \in used THEN h[x] ELSE <<>>]

(* ---------------------------- Init ------------------------------------- *)

CacheInit ==
    /\ now = StartTime
    /\ session_maker = FALSE
    /\ heap = [x \in Refs |-> <<>>]
    /\ previews = 1
    /\ last_updated = 0
    /\ update_lock = NoThread
    /\ pc = [t \in Threads |->
               IF t \in Bg THEN "unborn" ELSE "idle"]
    /\ seen_lu = [r \in Readers |-> 0]
    /\ ret = [r \in Readers |-> NoRef]
    /\ nspawned = 0
    /\ observed = [t \in Bg |-> 0]
    /\ rows = [t \in Updaters |-> <<>>]
    /\ newp = [t \in Updaters |-> NoRef]
    /\ idx = [t \in Updaters |-> 1]
    /\ exc = [t \in Updaters |-> FALSE]
    /\ pre = [t \in Updaters |-> << <<>>, 0 >>]
    /\ bg_refreshes = [v \in 0..MaxTime |-> 0]
    /\ installed = { <<>> }

(* ---------------------------- environment ------------------------------ *)

Tick ==
    /\ now < MaxTime
    /\ now' = now + 1
    /\ UNCHANGED << session_maker, cacheVars, update_lock, pc,
                    readerVars, nspawned, observed, updLocals, history, allocVars >>

set_session_maker ==
    /\ ~session_maker
    /\ session_maker' = TRUE
    /\ UNCHANGED << now, cacheVars, update_lock, pc,
                    readerVars, nspawned, observed, updLocals, history, allocVars >>

(* ---------------------------- get_previews ----------------------------- *)

\* _update_if_needed, line 166: the TTL check
CheckTTL(r) ==
    /\ pc[r] = "idle"
    /\ seen_lu' = [seen_lu EXCEPT ![r] = last_updated]
    /\ pc' = [pc EXCEPT ![r] = IF Expired(last_updated) THEN "chklock" ELSE "ret"]
    /\ UNCHANGED << now, session_maker, cacheVars, update_lock,
                    ret, nspawned, observed, updLocals, history, allocVars >>

\* variant of CheckLockedAndSpawn: the caller waits for the lock to be free
CheckLockedWaits(r) ==
    /\ pc[r] = "chklock"
    /\ update_lock = NoThread
    /\ LET t == [kind |-> "bg", n |-> nspawned + 1] IN
         /\ nspawned' = nspawned + 1
         /\ observed' = [observed EXCEPT ![t] = seen_lu[r]]
         /\ pc' = [pc EXCEPT ![r] = "ret", ![t] = "start"]
    /\ UNCHANGED << now, session_maker, cacheVars, update_lock,
                    readerVars, updLocals, history, allocVars >>

\* _update_if_needed, lines 169-175: update_lock.locked(), Thread(...).start()
CheckLockedAndSpawn(r) ==
    /\ pc[r] = "chklock"
    /\ IF update_lock # NoThread
         THEN /\ pc' = [pc EXCEPT ![r] = "ret"]
              /\ UNCHANGED << nspawned, observed >>
         ELSE LET t == [kind |-> "bg", n |-> nspawned + 1] IN
              /\ nspawned' = nspawned + 1
              /\ observed' = [observed EXCEPT ![t] = seen_lu[r]]
              /\ pc' = [pc EXCEPT ![r] = "ret", ![t] = "start"]
    /\ UNCHANGED << now, session_maker, cacheVars, update_lock,
                    readerVars, updLocals, history, allocVars >>

\* get_previews, line 49: return self.previews
ReturnPreviews(r) ==
    /\ pc[r] = "ret"
    /\ ret' = [ret EXCEPT ![r] = previews]
    /\ heap' = Collect(heap, {previews} \cup { ret'[x] : x \in Readers }
                                        \cup { newp[t] : t \in Updaters })
    /\ seen_lu' = [seen_lu EXCEPT ![r] = 0]
    /\ pc' = [pc EXCEPT ![r] = "done"]
    /\ UNCHANGED << now, session_maker, previews, last_updated,
                    update_lock, nspawned, observed, updLocals, history, allocVars >>

get_previews(r) ==
    \/ CheckTTL(r)
    \/ CheckLockedAndSpawn(r)
    \/ ReturnPreviews(r)

(* ---------------------------- lock acquisition ------------------------- *)

\* variant of BgAcquire: the refresh is entered without looking at the lock
BgAcquireUnchecked(t) ==
    /\ pc[t] = "start"
    /\ update_lock' = t
    /\ pc' = [pc EXCEPT ![t] = "enter"]
    /\ UNCHANGED << now, session_maker, cacheVars, readerVars,
                    nspawned, observed, updLocals, history, allocVars >>

\* variant of BgAcquire: the thread waits until the lock is free
BgAcquireBlocking(t) ==
    /\ pc[t] = "start"
    /\ update_lock = NoThread
    /\ update_lock' = t
    /\ pc' = [pc EXCEPT ![t] = "enter"]
    /\ UNCHANGED << now, session_maker, cacheVars, readerVars,
                    nspawned, observed, updLocals, history, allocVars >>

\* _run_update_in_background, line 149: update_lock.acquire(blocking=False);
\* lines 158-159: the lock is taken, the thread ends
BgAcquire(t) ==
    /\ pc[t] = "start"
    /\ IF update_lock = NoThread
         THEN /\ update_lock' = t
              /\ pc' = [pc EXCEPT ![t] = "enter"]
              /\ UNCHANGED observed
         ELSE /\ pc' = [pc EXCEPT ![t] = "done"]
              /\ observed' = [observed EXCEPT ![t] = 0]
              /\ UNCHANGED update_lock
    /\ UNCHANGED << now, session_maker, cacheVars, readerVars,
                    nspawned, updLocals, history, allocVars >>

\* force_update, line 141: with self.update_lock (a blocking acquire)
ForceAcquire(t) ==
    /\ pc[t] = "idle"
    /\ update_lock = NoThread
    /\ update_lock' = t
    /\ pc' = [pc EXCEPT ![t] = "enter"]
    /\ UNCHANGED << now, session_maker, cacheVars, readerVars,
                    nspawned, observed, updLocals, history, allocVars >>

(* ---------------------------- _update_cache_from_db -------------------- *)

\* lines 56-87: without a session factory the refresh returns at once;
\* otherwise the store query runs, and returns the rows or raises
UpdQuery(t) ==
    /\ pc[t] = "enter"
    /\ pre' = [pre EXCEPT ![t] = << heap[previews], last_updated >>]
    /\ IF ~session_maker
         THEN /\ pc' = [pc EXCEPT ![t] = "release"]
              /\ UNCHANGED << rows, newp, idx, heap, exc, bg_refreshes >>
         ELSE /\ bg_refreshes' =
                    IF t \in Bg /\ bg_refreshes[observed[t]] < 2
                      THEN [bg_refreshes EXCEPT ![observed[t]] = @ + 1]
                      ELSE bg_refreshes
              /\ \/ /\ \E s \in StoreContents : rows' = [rows EXCEPT ![t] = s]
                    /\ newp' = [newp EXCEPT ![t] = NewRef]
                    /\ heap' = [heap EXCEPT ![NewRef] = <<>>]
                    /\ idx' = [idx EXCEPT ![t] = 1]
                    /\ pc' = [pc EXCEPT ![t] = "build"]
                    /\ UNCHANGED exc
                 \/ /\ exc' = [exc EXCEPT ![t] = TRUE]
                    /\ pc' = [pc EXCEPT ![t] = "release"]
                    /\ UNCHANGED << rows, newp, idx, heap >>
    /\ UNCHANGED << now, session_maker, previews, last_updated,
                    update_lock, readerVars, nspawned, observed, installed,
                    allocVars >>

\* variant of UpdAppend: the row is appended to the list self.previews
\* refers to instead of to the private new_previews
UpdAppendInPlace(t) ==
    /\ pc[t] = "build"
    /\ idx[t] <= Len(rows[t])
    /\ heap' = [heap EXCEPT ![previews] = Append(@, rows[t][idx[t]])]
    /\ idx' = [idx EXCEPT ![t] = @ + 1]
    /\ UNCHANGED << now, session_maker, previews, last_updated,
                    update_lock, pc, readerVars, nspawned, observed,
                    rows, newp, exc, pre, history, allocVars >>

\* lines 90-118: one round of the loop that builds new_previews
UpdAppend(t) ==
    /\ pc[t] = "build"
    /\ idx[t] <= Len(rows[t])
    /\ heap' = [heap EXCEPT ![newp[t]] = Append(@, rows[t][idx[t]])]
    /\ idx' = [idx EXCEPT ![t] = @ + 1]
    /\ UNCHANGED << now, session_maker, previews, last_updated,
                    update_lock, pc, readerVars, nspawned, observed,
                    rows, newp, exc, pre, history, allocVars >>

\* lines 123-124: after the loop the objects are detached from the session;
\* when this raises, new_previews is dropped
UpdExpungeRaises(t) ==
    /\ pc[t] = "build"
    /\ idx[t] > Len(rows[t])
    /\ rows' = [rows EXCEPT ![t] = <<>>]
    /\ idx' = [idx EXCEPT ![t] = 1]
    /\ exc' = [exc EXCEPT ![t] = TRUE]
    /\ newp' = [newp EXCEPT ![t] = NoRef]
    /\ heap' = Collect(heap, {previews} \cup { ret[x] : x \in Readers }
                               \cup { newp'[u] : u \in Updaters })
    /\ pc' = [pc EXCEPT ![t] = "release"]
    /\ UNCHANGED << now, session_maker, previews, last_updated,
                    update_lock, readerVars, nspawned, observed,
                    pre, history, allocVars >>

\* lines 123-128: the loop is over, the objects are detached, and
\* self.previews = new_previews
UpdSwap(t) ==
    /\ pc[t] = "build"
    /\ idx[t] > Len(rows[t])
    /\ rows' = [rows EXCEPT ![t] = <<>>]
    /\ idx' = [idx EXCEPT ![t] = 1]
    /\ previews' = newp[t]
    /\ newp' = [newp EXCEPT ![t] = NoRef]
    /\ heap' = Collect(heap, {previews'} \cup { ret[x] : x \in Readers }
                               \cup { newp'[u] : u \in Updaters })
    /\ installed' = installed \cup { heap[newp[t]] }
    /\ pc' = [pc EXCEPT ![t] = "stamp"]
    /\ UNCHANGED << now, session_maker, last_updated,
                    update_lock, readerVars, nspawned, observed,
                    exc, pre, bg_refreshes, allocVars >>

\* line 129: self.last_updated = time.time()
UpdStamp(t) ==
    /\ pc[t] = "stamp"
    /\ last_updated' = now
    /\ pc' = [pc EXCEPT ![t] = "release"]
    /\ UNCHANGED << now, session_maker, heap, previews,
                    update_lock, readerVars, nspawned, observed,
                    updLocals, history, allocVars >>

_update_cache_from_db(t) ==
    \/ UpdQuery(t)
    \/ UpdAppend(t)
    \/ UpdExpungeRaises(t)
    \/ UpdSwap(t)
    \/ UpdStamp(t)

\* variant of Release: the lock is released only when the refresh returned
ReleaseOnSuccessOnly(t) ==
    /\ pc[t] = "release"
    /\ update_lock' = IF exc[t] THEN update_lock ELSE NoThread
    /\ pc' = [pc EXCEPT ![t] = "done"]
    /\ UNCHANGED exc
    /\ pre' = [pre EXCEPT ![t] = << <<>>, 0 >>]
    /\ observed' = [x \in Bg |-> IF x = t THEN 0 ELSE observed[x]]
    /\ UNCHANGED << now, session_maker, cacheVars, readerVars,
                    nspawned, rows, newp, idx, history, allocVars >>

\* lines 155-156 (finally) and the exit of `with self.update_lock` at 141:
\* the lock is released whether the refresh returned or raised
Release(t) ==
    /\ pc[t] = "release"
    /\ update_lock' = NoThread
    /\ pc' = [pc EXCEPT ![t] = "done"]
    /\ UNCHANGED exc
    /\ pre' = [pre EXCEPT ![t] = << <<>>, 0 >>]
    /\ observed' = [x \in Bg |-> IF x = t THEN 0 ELSE observed[x]]
    /\ UNCHANGED << now, session_maker, cacheVars, readerVars,
                    nspawned, rows, newp, idx, history, allocVars >>

_run_update_in_background(t) ==
    \/ BgAcquire(t)
    \/ _update_cache_from_db(t)
    \/ Release(t)

force_update(t) ==
    \/ ForceAcquire(t)
    \/ _update_cache_from_db(t)
    \/ Release(t)

(* ---------------------------- NewsRanker ------------------------------- *)

NoCategory == "None"
NoLimit == -1

\* Python slice s[lo:hi] for 0 <= lo
Slice(s, lo, hi) ==
    LET h == IF hi > Len(s) THEN Len(s) ELSE hi
    IN  IF lo >= h THEN <<>> ELSE SubSeq(s, lo + 1, h)

\* variant of get_ranked_previews: an empty category gives an empty result
get_ranked_previews_no_fallback(all_preview_items, limit, offset, category) ==
    LET HasCat(item) == item.category = category
        filtered_items ==
            IF category # NoCategory
              THEN SelectSeq(all_preview_items, HasCat)
              ELSE all_preview_items
    IN  IF limit = NoLimit
          THEN Slice(filtered_items, offset, Len(filtered_items))
          ELSE Slice(filtered_items, offset, offset + limit)

\* variant of get_ranked_previews: the page is cut from the category's
\* items first, and an empty page falls back to the page of all items
get_ranked_previews_page_first(all_preview_items, limit, offset, category) ==
    LET HasCat(item) == item.category = category
        Page(q) == IF limit = NoLimit
                     THEN Slice(q, offset, Len(q))
                     ELSE Slice(q, offset, offset + limit)
    IN  IF category # NoCategory
             /\ Page(SelectSeq(all_preview_items, HasCat)) # <<>>
          THEN Page(SelectSeq(all_preview_items, HasCat))
          ELSE Page(all_preview_items)

\* variant of get_ranked_previews: the category is not looked at
get_ranked_previews_any_category(all_preview_items, limit, offset, category) ==
    IF limit = NoLimit
      THEN Slice(all_preview_items, offset, Len(all_preview_items))
      ELSE Slice(all_preview_items, offset, offset + limit)

\* NewsRanker.get_ranked_previews over what cache.get_previews() returned
get_ranked_previews(all_preview_items, limit, offset, category) ==
    LET HasCat(item) == item.category = category
        filtered_items ==
            IF category # NoCategory
              THEN IF SelectSeq(all_preview_items, HasCat) # <<>>
                     THEN SelectSeq(all_preview_items, HasCat)
                     ELSE all_preview_items
              ELSE all_preview_items
        ranked_items == filtered_items
    IN  IF limit = NoLimit
          THEN Slice(ranked_items, offset, Len(ranked_items))
          ELSE Slice(ranked_items, offset, offset + limit)

(* ---------------------------- TeaserService ---------------------------- *)

Ids == 1..MaxId
ItemCategories == {"a", "b"}
Items == { Item(i, c) : i \in Ids, c \in ItemCategories }
\* "z" is a category no preview has
RequestCategories == {NoCategory, "a", "z"}
WidgetNames == {"l", "s"}

Range(f) == { f[x] : x \in DOMAIN f }
IsInjective(f) == \A x, y \in DOMAIN f : f[x] = f[y] => x = y

\* the refresh query gives one row per (preview, category), so a snapshot
\* can repeat an id but not a row
Snapshots ==
    { q \in UNION { [1..n -> Items] : n \in 0..MaxSnapLen } : IsInjective(q) }

\* a validated seen list has no duplicates; the allocator only uses its set
SortedSeq(S) ==
    CHOOSE q \in [1..Cardinality(S) -> S] :
        /\ Range(q) = S
        /\ \A x, y \in 1..Cardinality(S) : x < y => q[x] < q[y]
SeenLists == { SortedSeq(S) : S \in SUBSET Ids }

\* a widgets dict, as the list of its (key, quantity) pairs in key order;
\* validate_widgets asks for at least one teaser and quantities >= 1
WidgetMaps ==
    { w \in UNION { [1..n -> [name : WidgetNames, qty : 1..MaxQty]] :
                        n \in 1..Cardinality(WidgetNames) } :
        \A x, y \in DOMAIN w : w[x].name = w[y].name => x = y }

NoResponse == [widgets |-> <<>>, newly_served_ids |-> {},
               seen_ids_long_term |-> <<>>, returned |-> FALSE]

seen_on_page_set == Range(seen_ids_page)
seen_long_term_set == Range(seen_ids_long_term)
excluded_ids == seen_on_page_set \cup seen_long_term_set

\* variant of Available: only the long-term list keeps an item out of pool 1
AvailableIgnoresPage(items) ==
    LET Fresh(item) == item.id \notin seen_long_term_set
    IN  SelectSeq(items, Fresh)

\* lines 107-110: pool 1
Available(items) ==
    LET Fresh(item) == item.id \notin excluded_ids
    IN  SelectSeq(items, Fresh)

\* variant of Reusable: everything already seen may be shown again
ReusableAnySeen(items) ==
    LET Seen(item) == item.id \in excluded_ids
    IN  SelectSeq(items, Seen)

\* lines 107-116: pool 2
Reusable(items) ==
    LET Again(item) ==
            /\ item.id \in excluded_ids
            /\ item.id \in seen_long_term_set
            /\ item.id \notin seen_on_page_set
    IN  SelectSeq(items, Again)

\* variant of NextUnserved: the next item of the pool, served or not
NextAny(pool, pos, served) ==
    IF pos < Len(pool) THEN pos + 1 ELSE 0

\* variant of NextUnserved: an item whose id has been served ends the
\* iteration
NextUnservedStopsAtServed(pool, pos, served) ==
    IF pos < Len(pool) /\ pool[pos + 1].id \notin served THEN pos + 1 ELSE 0

\* lines 146-148 and 153-155: next(it), repeated while the item's id has
\* been served; 0 stands for StopIteration
NextUnserved(pool, pos, served) ==
    IF \E j \in (pos + 1)..Len(pool) : pool[j].id \notin served
      THEN CHOOSE j \in (pos + 1)..Len(pool) :
               /\ pool[j].id \notin served
               /\ \A k \in (pos + 1)..(j - 1) : pool[k].id \in served
      ELSE 0

\* variant of Draw: the reusable pool is tried first
DrawReusableFirst(avail, apos, reuse, rpos, served) ==
    LET r == NextUnserved(reuse, rpos, served)
        a == NextUnserved(avail, apos, served)
    IN  IF r # 0
          THEN [pool |-> "reusable", at |-> r, apos |-> apos, rpos |-> r]
          ELSE IF a # 0
                 THEN [pool |-> "fresh", at |-> a, apos |-> a,
                       rpos |-> Len(reuse)]
                 ELSE [pool |-> "none", at |-> 0, apos |-> Len(avail),
                       rpos |-> Len(reuse)]

\* variant of Draw: a teaser whose id has been served ends the round instead
\* of being skipped
DrawGivesUpOnServed(avail, apos, reuse, rpos, served) ==
    IF apos < Len(avail)
      THEN IF avail[apos + 1].id \in served
             THEN [pool |-> "none", at |-> 0, apos |-> apos + 1,
                   rpos |-> rpos]
             ELSE [pool |-> "fresh", at |-> apos + 1, apos |-> apos + 1,
                   rpos |-> rpos]
      ELSE IF rpos < Len(reuse)
             THEN IF reuse[rpos + 1].id \in served
                    THEN [pool |-> "none", at |-> 0, apos |-> apos,
                          rpos |-> rpos + 1]
                    ELSE [pool |-> "reusable", at |-> rpos + 1,
                          apos |-> apos, rpos |-> rpos + 1]
             ELSE [pool |-> "none", at |-> 0, apos |-> apos, rpos |-> rpos]

\* lines 143-160: one teaser is taken from available_iter, or when that one
\* is exhausted from reusable_iter; an iterator that raised StopIteration
\* stays exhausted
Draw(avail, apos, reuse, rpos, served) ==
    LET a == NextUnserved(avail, apos, served)
        r == NextUnserved(reuse, rpos, served)
    IN  IF a # 0
          THEN [pool |-> "fresh", at |-> a, apos |-> a, rpos |-> rpos]
          ELSE IF r # 0
                 THEN [pool |-> "reusable", at |-> r, apos |-> Len(avail),
                       rpos |-> r]
                 ELSE [pool |-> "none", at |-> 0, apos |-> Len(avail),
                       rpos |-> Len(reuse)]

\* variant of IsNewForUser: every teaser handed out counts as new
IsNewForUserAlways(id) == TRUE

\* lines 170-172: a teaser that was not in the long-term list is new for
\* the user
IsNewForUser(id) == id \notin seen_long_term_set

\* TeaserResponseSchema: a field the returned dict lacks takes its default
ResponseSeenLongTermDefault == <<>>

AllocOff ==
    /\ snapshot = <<>>
    /\ req_widgets = <<>>
    /\ req_category = NoCategory
    /\ seen_ids_page = <<>>
    /\ seen_ids_long_term = <<>>
    /\ apc = "off"
    /\ all_teaser_items = <<>>
    /\ available_teasers = <<>>
    /\ reusable_teasers = <<>>
    /\ available_pos = 0
    /\ reusable_pos = 0
    /\ w_idx = 1
    /\ q_done = 0
    /\ response_widgets = <<>>
    /\ newly_served = <<>>
    /\ served_on_this_request = {}
    /\ response = NoResponse
    /\ assign_log = <<>>
    /\ slug_written = {}

\* a validated request arrives, and the cache holds some snapshot
AllocRequest ==
    /\ snapshot \in Snapshots
    /\ req_widgets \in WidgetMaps
    /\ req_category \in RequestCategories
    /\ seen_ids_page \in SeenLists
    /\ seen_ids_long_term \in SeenLists
    /\ apc = "rank"
    /\ all_teaser_items = <<>>
    /\ available_teasers = <<>>
    /\ reusable_teasers = <<>>
    /\ available_pos = 0
    /\ reusable_pos = 0
    /\ w_idx = 1
    /\ q_done = 0
    /\ response_widgets = <<>>
    /\ newly_served = <<>>
    /\ served_on_this_request = {}
    /\ response = NoResponse
    /\ assign_log = <<>>
    /\ slug_written = {}

\* lines 93-96: the candidates, already filtered by category
AllocRank ==
    /\ apc = "rank"
    /\ all_teaser_items' =
           get_ranked_previews(snapshot, NoLimit, 0, req_category)
    /\ apc' = "pools"
    /\ UNCHANGED << cacheAll, requestVars, available_teasers,
                    reusable_teasers, available_pos, reusable_pos, w_idx,
                    q_done, response_widgets, newly_served,
                    served_on_this_request, response, assign_log, slug_written >>

\* lines 101-120: the two pools and their iterators
AllocPools ==
    /\ apc = "pools"
    /\ available_teasers' = Available(all_teaser_items)
    /\ reusable_teasers' = Reusable(all_teaser_items)
    /\ available_pos' = 0
    /\ reusable_pos' = 0
    /\ apc' = "loop"
    /\ UNCHANGED << cacheAll, requestVars, all_teaser_items, w_idx, q_done,
                    response_widgets, newly_served, served_on_this_request,
                    response, assign_log, slug_written >>

\* lines 139-173: one round of `for _ in range(quantity)` for the widget the
\* outer loop is at; `break` and the last round move on to the next widget
AllocStep ==
    /\ apc = "loop"
    /\ w_idx <= Len(req_widgets)
    /\ LET widget_name == req_widgets[w_idx].name
           quantity == req_widgets[w_idx].qty
           d == Draw(available_teasers, available_pos,
                     reusable_teasers, reusable_pos, served_on_this_request)
           teaser_item == IF d.pool = "fresh" THEN available_teasers[d.at]
                          ELSE reusable_teasers[d.at]
       IN  /\ available_pos' = d.apos
           /\ reusable_pos' = d.rpos
           /\ IF d.pool = "none"
                THEN /\ w_idx' = w_idx + 1
                     /\ q_done' = 0
                     /\ UNCHANGED << response_widgets, newly_served,
                                     served_on_this_request, assign_log, slug_written >>
                ELSE /\ response_widgets' =
                           [n \in DOMAIN response_widgets \cup {widget_name} |->
                               IF n = widget_name THEN teaser_item
                               ELSE response_widgets[n]]
                     /\ slug_written' = slug_written \cup {teaser_item}
                     /\ served_on_this_request' =
                           served_on_this_request \cup {teaser_item.id}
                     /\ newly_served' =
                           IF IsNewForUser(teaser_item.id)
                             THEN Append(newly_served, teaser_item.id)
                             ELSE newly_served
                     /\ assign_log' =
                           Append(assign_log,
                                  [widget |-> widget_name,
                                   id |-> teaser_item.id, pool |-> d.pool])
                     /\ IF q_done + 1 < quantity
                          THEN q_done' = q_done + 1 /\ UNCHANGED w_idx
                          ELSE q_done' = 0 /\ w_idx' = w_idx + 1
    /\ UNCHANGED << cacheAll, requestVars, apc, all_teaser_items,
                    available_teasers, reusable_teasers, response >>

\* lines 175-178, and TeaserResponseSchema applied to the returned dict
AllocReturn ==
    /\ apc = "loop"
    /\ w_idx > Len(req_widgets)
    /\ response' = [widgets |-> response_widgets,
                    newly_served_ids |-> Range(newly_served),
                    seen_ids_long_term |-> ResponseSeenLongTermDefault,
                    returned |-> TRUE]
    /\ apc' = "done"
    /\ UNCHANGED << cacheAll, requestVars, all_teaser_items,
                    available_teasers, reusable_teasers, available_pos,
                    reusable_pos, w_idx, q_done, response_widgets,
                    newly_served, served_on_this_request, assign_log, slug_written >>

get_teasers_for_widgets ==
    \/ AllocRank
    \/ AllocPools
    \/ AllocStep
    \/ AllocReturn

(* ---------------------------- a call of the ranker --------------------- *)

MaxLimit == 2
MaxOffset == 3

RankOff ==
    /\ rk_limit = NoLimit
    /\ rk_offset = 0
    /\ rk_result = <<>>
    /\ rk_pc = "off"

\* the ranker is called over some snapshot with some arguments
RankRequest ==
    /\ snapshot \in Snapshots
    /\ req_category \in RequestCategories
    /\ req_widgets = <<>>
    /\ seen_ids_page = <<>>
    /\ seen_ids_long_term = <<>>
    /\ apc = "off"
    /\ all_teaser_items = <<>>
    /\ available_teasers = <<>>
    /\ reusable_teasers = <<>>
    /\ available_pos = 0
    /\ reusable_pos = 0
    /\ w_idx = 1
    /\ q_done = 0
    /\ response_widgets = <<>>
    /\ newly_served = <<>>
    /\ served_on_this_request = {}
    /\ response = NoResponse
    /\ assign_log = <<>>
    /\ slug_written = {}
    /\ rk_limit \in {NoLimit} \cup 0..MaxLimit
    /\ rk_offset \in 0..MaxOffset
    /\ rk_result = <<>>
    /\ rk_pc = "call"

\* services.py lines 19-56, one call
RankCall ==
    /\ rk_pc = "call"
    /\ rk_result' = get_ranked_previews(snapshot, rk_limit, rk_offset,
                                        req_category)
    /\ rk_pc' = "done"
    /\ UNCHANGED << cacheAll, allocOwn, rk_limit, rk_offset, besidesRank >>

(* ---------------------------- TeaserRequestSchema ---------------------- *)

\* the caps of the validators
MaxTotalTeasers == 20
MaxSeenIds == 200
MaxPreviewId == 10000000
MaxSeenUnion == 500

HexDigits ==
    << "0", "1", "2", "3", "4", "5", "6", "7",
       "8", "9", "a", "b", "c", "d", "e", "f" >>

\* format(n, "x")
RECURSIVE Hex(_)
Hex(n) ==
    IF n < 16 THEN HexDigits[n + 1]
    ELSE Hex(n \div 16) \o HexDigits[(n % 16) + 1]

\* format(n, "02x"): padded with zeros to a width of at least two
Format02x(n) == IF n < 16 THEN "0" \o Hex(n) ELSE Hex(n)

\* utils.py line 75: f"i0{teaser_counter:02x}"
InArticleWidgetName(counter) == "i0" \o Format02x(counter)

\* str.lower() on the keys the requests below use
Lower(k) ==
    CASE k = "L" -> "l"
      [] k = "S" -> "s"
      [] k = "R" -> "r"
      [] k = "I" -> "i"
      [] OTHER -> k

allowed_keys == {"l", "s", "r", "i"}

RECURSIVE SumQty(_)
SumQty(w) == IF w = <<>> THEN 0 ELSE w[1].qty + SumQty(Tail(w))

\* variant of validate_widgets: the request for no teaser at all is let in
validate_widgets_allows_none(v) ==
    /\ \A x \in DOMAIN v : Lower(v[x].name) \in allowed_keys
    /\ \A x \in DOMAIN v : v[x].qty >= 1
    /\ SumQty(v) <= MaxTotalTeasers

\* TRUE when the validator returns v, FALSE when it raises ValueError
validate_widgets(v) ==
    /\ \A x \in DOMAIN v : Lower(v[x].name) \in allowed_keys
    /\ SumQty(v) # 0
    /\ \A x \in DOMAIN v : v[x].qty >= 1
    /\ SumQty(v) <= MaxTotalTeasers

validate_seen_ids(v) ==
    /\ Len(v) <= MaxSeenIds
    /\ \A x \in DOMAIN v : 1 <= v[x] /\ v[x] <= MaxPreviewId
    /\ Cardinality(Range(v)) = Len(v)

validate_full_request(page_ids, long_ids) ==
    Cardinality(Range(page_ids) \cup Range(long_ids)) <= MaxSeenUnion

\* the request bodies that arrive at /etc: keys in both cases, a key the
\* article pages generate, an unknown key; quantities below, at and above
\* the limits; seen lists that are fine, repeat an id, hold an id out of
\* range, or are too long
RawWidgetNames == {"l", "S", InArticleWidgetName(0), "x"}
RawQuantities == {0, 1, MaxTotalTeasers + 1}
RawWidgetMaps ==
    { w \in UNION { [1..n -> [name : RawWidgetNames, qty : RawQuantities]] :
                        n \in 0..2 } :
        \A x, y \in DOMAIN w : w[x].name = w[y].name => x = y }
RawSeenLists ==
    { <<>>, <<1>>, <<1, 1>>, <<0>>, [x \in 1..(MaxSeenIds + 1) |-> x] }
BoundarySnapshots == { <<>>, << Item(1, "a"), Item(2, "b") >> }

\* a request body arrives; nothing has looked at it yet
RawRequest ==
    /\ snapshot \in BoundarySnapshots
    /\ req_widgets \in RawWidgetMaps
    /\ req_category = NoCategory
    /\ seen_ids_page \in RawSeenLists
    /\ seen_ids_long_term \in RawSeenLists
    /\ apc = "validate"
    /\ all_teaser_items = <<>>
    /\ available_teasers = <<>>
    /\ reusable_teasers = <<>>
    /\ available_pos = 0
    /\ reusable_pos = 0
    /\ w_idx = 1
    /\ q_done = 0
    /\ response_widgets = <<>>
    /\ newly_served = <<>>
    /\ served_on_this_request = {}
    /\ response = NoResponse
    /\ assign_log = <<>>
    /\ slug_written = {}

\* pydantic builds TeaserRequestSchema from the body: a validator that
\* raises makes the request fail before get_teasers is entered
ValidateRequest ==
    /\ apc = "validate"
    /\ apc' = IF /\ validate_widgets(req_widgets)
                 /\ validate_seen_ids(seen_ids_page)
                 /\ validate_seen_ids(seen_ids_long_term)
                 /\ validate_full_request(seen_ids_page, seen_ids_long_term)
                THEN "rank" ELSE "rejected"
    /\ UNCHANGED << cacheAll, requestVars, all_teaser_items,
                    available_teasers, reusable_teasers, available_pos,
                    reusable_pos, w_idx, q_done, response_widgets,
                    newly_served, served_on_this_request, response,
                    assign_log, slug_written >>

(* ---------------------------- inject_in_article_teasers ---------------- *)

MaxParts == 7
LongText == 516

\* what stands between two <br> tags
PartValues == {"", "p", " q "}

\* str.strip() on the parts above
Strip(p) ==
    CASE p = " q " -> "q"
      [] p = " " -> ""
      [] OTHER -> p

NonEmpty(p) == p # ""

\* utils.py line 55: [p.strip() for p in raw_paragraphs if p.strip()]
StripNonEmpty(raw) ==
    SelectSeq([k \in 1..Len(raw) |-> Strip(raw[k])], NonEmpty)

ParagraphBlock(p_text) == [kind |-> "paragraph", text |-> p_text]
PlaceholderBlock(widget_name) == [kind |-> "placeholder", name |-> widget_name]

\* a teaser after every second paragraph that is not the last
TeaserAfterUnlessLast(i, total_paragraphs) ==
    /\ (i + 1) % 2 = 0
    /\ total_paragraphs - (i + 1) > 0

\* utils.py lines 69-73, with i the 0-based index of the paragraph
TeaserAfter(i, total_paragraphs) ==
    /\ (i + 1) % 2 = 0
    /\ total_paragraphs - (i + 1) > 1

InjectOff ==
    /\ raw_paragraphs = <<>>
    /\ paragraphs = <<>>
    /\ inj_i = 0
    /\ teaser_counter = 0
    /\ processed_blocks = <<>>
    /\ inj_pc = "off"

\* the content is some text: a split never gives an empty list, and the
\* empty text splits into one empty part
InjectRequest ==
    /\ raw_paragraphs \in
           UNION {[1..n -> PartValues] : n \in 1..MaxParts}
               \cup {[k \in 1..LongText |-> "p"]}
    /\ paragraphs = <<>>
    /\ inj_i = 0
    /\ teaser_counter = 0
    /\ processed_blocks = <<>>
    /\ inj_pc = "call"

\* utils.py lines 42-59
InjectSplit ==
    /\ inj_pc = "call"
    /\ IF raw_paragraphs = << "" >>
       THEN /\ inj_pc' = "done"
            /\ UNCHANGED paragraphs
       ELSE /\ paragraphs' = StripNonEmpty(raw_paragraphs)
            /\ inj_pc' = "loop"
    /\ inj_i' = 0
    /\ teaser_counter' = 0
    /\ processed_blocks' = <<>>
    /\ UNCHANGED << cacheAll, allocOwn, besidesInject, raw_paragraphs >>

\* utils.py lines 61-83, one round of the loop
InjectStep ==
    /\ inj_pc = "loop"
    /\ inj_i < Len(paragraphs)
    /\ IF TeaserAfter(inj_i, Len(paragraphs))
       THEN /\ processed_blocks' =
                   processed_blocks
                       \o << ParagraphBlock(paragraphs[inj_i + 1]),
                             PlaceholderBlock(InArticleWidgetName(teaser_counter)) >>
            /\ teaser_counter' = teaser_counter + 1
       ELSE /\ processed_blocks' =
                   Append(processed_blocks, ParagraphBlock(paragraphs[inj_i + 1]))
            /\ UNCHANGED teaser_counter
    /\ inj_i' = inj_i + 1
    /\ UNCHANGED << cacheAll, allocOwn, besidesInject, raw_paragraphs,
                    paragraphs, inj_pc >>

\* utils.py line 86
InjectReturn ==
    /\ inj_pc = "loop"
    /\ inj_i = Len(paragraphs)
    /\ inj_pc' = "done"
    /\ UNCHANGED << cacheAll, allocOwn, besidesInject, raw_paragraphs,
                    paragraphs, inj_i, teaser_counter, processed_blocks >>

inject_in_article_teasers ==
    \/ InjectSplit
    \/ InjectStep
    \/ InjectReturn

(* ---------------------------- process_source, step 4 ------------------- *)

\* the links of one source
NumLinks == 3
\* driver_pool.max_drivers, scaled down
MaxWorkers == 2

Links == 1..NumLinks
NoLink == 0

\* scrape_article returns a dict, returns None, or raises
Outcomes == {"article", "none", "raise"}
NotScraped == "pending"

\* the dict scrape_article returns for a link (iadvert_scraper.py 141-146)
Article(link) == [link |-> link]

\* queries.py 409-426: the links of the source with is_processed = False
get_unprocessed_article_links_for_source(processed) ==
    SortedSeq(Links \ processed)

\* variant of MarkedLinks: every link that was scraped is marked
MarkedLinksAllScraped(articles, scraped) == Range(scraped)

\* runner.py line 57: [a["link"] for a in parsed_articles]
MarkedLinks(articles, scraped) == { articles[k].link : k \in DOMAIN articles }

\* queries.py 429-484: the articles of known links that have no article yet
NewArticles(articles, existing) ==
    { articles[k].link : k \in DOMAIN articles } \ existing

\* variant of AllTasksDone: every task has been taken by a worker
AllTasksTaken == \A l \in Range(links) : task_pc[l] # "queued"

\* the with block of the executor ends: shutdown(wait=True)
AllTasksDone == \A l \in Range(links) : task_pc[l] = "finished"

ScrapeOff ==
    /\ ps_pc = "off"
    /\ links = <<>>
    /\ task_pc = [l \in Links |-> "none"]
    /\ outcome = [l \in Links |-> NotScraped]
    /\ results = <<>>
    /\ results_lock = NoLink
    /\ parsed_articles = <<>>
    /\ db_processed = {}
    /\ db_articles = {}
    /\ tx_processed = {}
    /\ tx_articles = {}
    /\ commits = <<>>
    /\ links_next_run = <<>>

\* earlier runs have processed some links, each together with its article
ProcessSourceStart ==
    /\ ps_pc = "links"
    /\ links = <<>>
    /\ task_pc = [l \in Links |-> "none"]
    /\ outcome = [l \in Links |-> NotScraped]
    /\ results = <<>>
    /\ results_lock = NoLink
    /\ parsed_articles = <<>>
    /\ db_processed \in SUBSET Links
    /\ db_articles = db_processed
    /\ tx_processed = {}
    /\ tx_articles = {}
    /\ commits = <<>>
    /\ links_next_run = <<>>

\* runner.py lines 50-53, base_scraper.py lines 62-78: the links are read
\* and, when there are any, every task is submitted
PsGetLinks ==
    /\ ps_pc = "links"
    /\ links' = get_unprocessed_article_links_for_source(db_processed)
    /\ IF links' = <<>>
       THEN ps_pc' = "done" /\ UNCHANGED task_pc
       ELSE /\ ps_pc' = "scrape"
            /\ task_pc' = [l \in Links |->
                              IF l \in Range(links') THEN "queued" ELSE "none"]
    /\ UNCHANGED << cacheAll, allocOwn, besidesScrape, outcome, results,
                    results_lock, parsed_articles, db_processed, db_articles,
                    tx_processed, tx_articles, commits, links_next_run >>

Running == { l \in Links : task_pc[l] \in {"scrape", "lock", "append"} }

\* a free worker of the executor takes the next task of its queue
TaskStart(k) ==
    /\ ps_pc = "scrape"
    /\ k \in DOMAIN links
    /\ task_pc[links[k]] = "queued"
    /\ \A j \in 1..(k - 1) : task_pc[links[j]] # "queued"
    /\ Cardinality(Running) < MaxWorkers
    /\ task_pc' = [task_pc EXCEPT ![links[k]] = "scrape"]
    /\ UNCHANGED << cacheAll, allocOwn, besidesScrape, ps_pc, links, outcome,
                    results, results_lock, parsed_articles, db_processed,
                    db_articles, tx_processed, tx_articles, commits,
                    links_next_run >>

\* base_scraper.py lines 72-73: scrape_article; an exception ends the task
\* and stays in its future, which nobody reads
TaskScrape(l) ==
    /\ task_pc[l] = "scrape"
    /\ \E o \in Outcomes :
          /\ outcome' = [outcome EXCEPT ![l] = o]
          /\ task_pc' = [task_pc EXCEPT ![l] =
                            IF o = "article" THEN "lock" ELSE "finished"]
    /\ UNCHANGED << cacheAll, allocOwn, besidesScrape, ps_pc, links, results,
                    results_lock, parsed_articles, db_processed, db_articles,
                    tx_processed, tx_articles, commits, links_next_run >>

\* line 74: with lock
TaskLock(l) ==
    /\ task_pc[l] = "lock"
    /\ results_lock = NoLink
    /\ results_lock' = l
    /\ task_pc' = [task_pc EXCEPT ![l] = "append"]
    /\ UNCHANGED << cacheAll, allocOwn, besidesScrape, ps_pc, links, outcome,
                    results, parsed_articles, db_processed, db_articles,
                    tx_processed, tx_articles, commits, links_next_run >>

\* line 75, and the end of the with block
TaskAppend(l) ==
    /\ task_pc[l] = "append"
    /\ results' = Append(results, Article(l))
    /\ results_lock' = NoLink
    /\ task_pc' = [task_pc EXCEPT ![l] = "finished"]
    /\ UNCHANGED << cacheAll, allocOwn, besidesScrape, ps_pc, links, outcome,
                    parsed_articles, db_processed, db_articles, tx_processed,
                    tx_articles, commits, links_next_run >>

\* lines 77-81: the executor is shut down, waiting for its tasks, and the
\* list is returned
ScrapeReturn ==
    /\ ps_pc = "scrape"
    /\ AllTasksDone
    /\ parsed_articles' = results
    /\ ps_pc' = "upsert"
    /\ UNCHANGED << cacheAll, allocOwn, besidesScrape, links, task_pc,
                    outcome, results, results_lock, db_processed, db_articles,
                    tx_processed, tx_articles, commits, links_next_run >>

scrape_articles ==
    \/ \E k \in 1..NumLinks : TaskStart(k)
    \/ \E l \in Links : TaskScrape(l)
    \/ \E l \in Links : TaskLock(l)
    \/ \E l \in Links : TaskAppend(l)
    \/ ScrapeReturn

\* runner.py lines 61-63: except Exception: session.rollback()
Rollback ==
    /\ tx_processed' = {}
    /\ tx_articles' = {}
    /\ ps_pc' = "done"
    /\ UNCHANGED << db_processed, db_articles, commits >>

\* runner.py line 56; a statement of the session can raise
TxUpsert ==
    /\ ps_pc = "upsert"
    /\ \/ /\ tx_articles' = NewArticles(parsed_articles, db_articles)
          /\ ps_pc' = "mark"
          /\ UNCHANGED << tx_processed, db_processed, db_articles, commits >>
       \/ Rollback
    /\ UNCHANGED << cacheAll, allocOwn, besidesScrape, links, task_pc,
                    outcome, results, results_lock, parsed_articles,
                    links_next_run >>

\* runner.py line 57
TxMark ==
    /\ ps_pc = "mark"
    /\ \/ /\ tx_processed' = MarkedLinks(parsed_articles, links)
          /\ ps_pc' = "commit"
          /\ UNCHANGED << tx_articles, db_processed, db_articles, commits >>
       \/ Rollback
    /\ UNCHANGED << cacheAll, allocOwn, besidesScrape, links, task_pc,
                    outcome, results, results_lock, parsed_articles,
                    links_next_run >>

\* runner.py line 58
TxCommit ==
    /\ ps_pc = "commit"
    /\ \/ /\ db_articles' = db_articles \cup tx_articles
          /\ db_processed' = db_processed \cup tx_processed
          /\ commits' = Append(commits, [articles |-> tx_articles,
                                         processed |-> tx_processed])
          /\ tx_articles' = {}
          /\ tx_processed' = {}
          /\ ps_pc' = "done"
       \/ Rollback
    /\ UNCHANGED << cacheAll, allocOwn, besidesScrape, links, task_pc,
                    outcome, results, results_lock, parsed_articles,
                    links_next_run >>

\* runner.py line 50, in the next run of process_source for the source
PsNextRun ==
    /\ ps_pc = "done"
    /\ links_next_run' = get_unprocessed_article_links_for_source(db_processed)
    /\ ps_pc' = "next"
    /\ UNCHANGED << cacheAll, allocOwn, besidesScrape, links, task_pc,
                    outcome, results, results_lock, parsed_articles,
                    db_processed, db_articles, tx_processed, tx_articles,
                    commits >>

process_source ==
    \/ PsGetLinks
    \/ scrape_articles
    \/ TxUpsert
    \/ TxMark
    \/ TxCommit
    \/ PsNextRun

(* ---------------------------- DriverPool ------------------------------- *)

\* threads that call get_driver and release_driver, one call of each
NumCallers == 2
\* largest max_drivers
MaxDrivers == 2

Callers == 1..NumCallers
\* the thread that runs `with DriverPool(...) as driver_pool`
Closer == 0
PoolThreads == Callers \cup {Closer}
NoHolder == -1
NoDriver == 0

\* where a thread goes on after _initialize_pool
AfterInit(t) == IF t = Closer THEN "inside" ELSE "get_lock"

PoolOff ==
    /\ lazy = FALSE
    /\ max_drivers = 1
    /\ initialized = FALSE
    /\ pool_q = <<>>
    /\ pool_lock = NoHolder
    /\ dp_pc = [t \in PoolThreads |-> "off"]
    /\ held = [t \in PoolThreads |-> NoDriver]
    /\ fill_k = [t \in PoolThreads |-> 0]
    /\ quits = <<>>
    /\ fills = <<>>

\* __init__ of either DriverPool; no thread has called it yet
PoolCreated ==
    /\ lazy \in BOOLEAN
    /\ max_drivers \in 1..MaxDrivers
    /\ initialized = FALSE
    /\ pool_q = <<>>
    /\ pool_lock = NoHolder
    /\ dp_pc = [t \in PoolThreads |-> "start"]
    /\ held = [t \in PoolThreads |-> NoDriver]
    /\ fill_k = [t \in PoolThreads |-> 0]
    /\ quits = <<>>
    /\ fills = <<>>

\* _create_driver(): the new driver is the next of 1, 2, ...
NewDriver == Len(quits) + 1

\* the context has not begun to end
ContextOpen == dp_pc[Closer] \in {"start", "init_check", "init_lock",
                                  "init_recheck", "init_fill", "inside"}

\* __enter__: the lazy pool initialises, the other one only returns self
Enter ==
    /\ dp_pc[Closer] = "start"
    /\ dp_pc' = [dp_pc EXCEPT ![Closer] =
                    IF lazy THEN "init_check" ELSE "inside"]
    /\ UNCHANGED << cacheAll, allocOwn, besidesPool, lazy, max_drivers,
                    initialized, pool_q, pool_lock, held, fill_k, quits, fills >>

\* a caller begins get_driver: the lazy pool initialises first
GetBegin(t) ==
    /\ t \in Callers
    /\ dp_pc[t] = "start"
    /\ ContextOpen
    /\ dp_pc' = [dp_pc EXCEPT ![t] = IF lazy THEN "init_check" ELSE "get_lock"]
    /\ UNCHANGED << cacheAll, allocOwn, besidesPool, lazy, max_drivers,
                    initialized, pool_q, pool_lock, held, fill_k, quits, fills >>

\* src/scrapper/driver_pool.py line 33: the check outside the lock
InitCheck(t) ==
    /\ dp_pc[t] = "init_check"
    /\ dp_pc' = [dp_pc EXCEPT ![t] =
                    IF initialized THEN AfterInit(t) ELSE "init_lock"]
    /\ UNCHANGED << cacheAll, allocOwn, besidesPool, lazy, max_drivers,
                    initialized, pool_q, pool_lock, held, fill_k, quits, fills >>

\* line 34
InitLock(t) ==
    /\ dp_pc[t] = "init_lock"
    /\ pool_lock = NoHolder
    /\ pool_lock' = t
    /\ dp_pc' = [dp_pc EXCEPT ![t] = "init_recheck"]
    /\ UNCHANGED << cacheAll, allocOwn, besidesPool, lazy, max_drivers,
                    initialized, pool_q, held, fill_k, quits, fills >>

\* line 35: the check under the lock
InitRecheck(t) ==
    /\ dp_pc[t] = "init_recheck"
    /\ IF initialized
       THEN /\ pool_lock' = NoHolder
            /\ dp_pc' = [dp_pc EXCEPT ![t] = AfterInit(t)]
            /\ UNCHANGED << fill_k, fills >>
       ELSE /\ dp_pc' = [dp_pc EXCEPT ![t] = "init_fill"]
            /\ fill_k' = [fill_k EXCEPT ![t] = 0]
            /\ UNCHANGED << pool_lock, fills >>
    /\ UNCHANGED << cacheAll, allocOwn, besidesPool, lazy, max_drivers,
                    initialized, pool_q, held, quits >>

\* lines 37-39: one round of the loop, or after the last one the flag is
\* set and the lock released
InitFill(t) ==
    /\ dp_pc[t] = "init_fill"
    /\ IF fill_k[t] < max_drivers
       THEN /\ pool_q' = Append(pool_q, NewDriver)
            /\ quits' = Append(quits, 0)
            /\ fill_k' = [fill_k EXCEPT ![t] = fill_k[t] + 1]
            /\ UNCHANGED << initialized, pool_lock, dp_pc, fills >>
       ELSE /\ initialized' = TRUE
            /\ pool_lock' = NoHolder
            /\ fills' = Append(fills, fill_k[t])
            /\ dp_pc' = [dp_pc EXCEPT ![t] = AfterInit(t)]
            /\ UNCHANGED << pool_q, quits, fill_k >>
    /\ UNCHANGED << cacheAll, allocOwn, besidesPool, lazy, max_drivers, held >>

_initialize_pool(t) ==
    \/ InitCheck(t)
    \/ InitLock(t)
    \/ InitRecheck(t)
    \/ InitFill(t)

\* get_driver: with self.lock
GetLock(t) ==
    /\ dp_pc[t] = "get_lock"
    /\ pool_lock = NoHolder
    /\ pool_lock' = t
    /\ dp_pc' = [dp_pc EXCEPT ![t] = "get_empty"]
    /\ UNCHANGED << cacheAll, allocOwn, besidesPool, lazy, max_drivers,
                    initialized, pool_q, held, fill_k, quits, fills >>

\* get_driver: if self.pool.empty()
GetEmpty(t) ==
    /\ dp_pc[t] = "get_empty"
    /\ dp_pc' = [dp_pc EXCEPT ![t] =
                    IF pool_q = <<>> THEN "get_create" ELSE "get_take"]
    /\ UNCHANGED << cacheAll, allocOwn, besidesPool, lazy, max_drivers,
                    initialized, pool_q, pool_lock, held, fill_k, quits, fills >>

\* get_driver: return self._create_driver()
GetCreate(t) ==
    /\ dp_pc[t] = "get_create"
    /\ held' = [held EXCEPT ![t] = NewDriver]
    /\ quits' = Append(quits, 0)
    /\ pool_lock' = NoHolder
    /\ dp_pc' = [dp_pc EXCEPT ![t] = "using"]
    /\ UNCHANGED << cacheAll, allocOwn, besidesPool, lazy, max_drivers,
                    initialized, pool_q, fill_k, fills >>

\* get_driver: return self.pool.get(), which waits while the queue is empty
GetTake(t) ==
    /\ dp_pc[t] = "get_take"
    /\ pool_q # <<>>
    /\ held' = [held EXCEPT ![t] = Head(pool_q)]
    /\ pool_q' = Tail(pool_q)
    /\ pool_lock' = NoHolder
    /\ dp_pc' = [dp_pc EXCEPT ![t] = "using"]
    /\ UNCHANGED << cacheAll, allocOwn, besidesPool, lazy, max_drivers,
                    initialized, fill_k, quits, fills >>

get_driver(t) ==
    \/ GetBegin(t)
    \/ _initialize_pool(t)
    \/ GetLock(t)
    \/ GetEmpty(t)
    \/ GetCreate(t)
    \/ GetTake(t)

\* release_driver: with self.lock
ReleaseLock(t) ==
    /\ dp_pc[t] = "using"
    /\ pool_lock = NoHolder
    /\ pool_lock' = t
    /\ dp_pc' = [dp_pc EXCEPT ![t] = "rel_check"]
    /\ UNCHANGED << cacheAll, allocOwn, besidesPool, lazy, max_drivers,
                    initialized, pool_q, held, fill_k, quits, fills >>

\* variant of HasRoom: the pool takes every driver back
HasRoomAlways == TRUE

\* release_driver: self.pool.qsize() < self.max_drivers
HasRoom == Len(pool_q) < max_drivers

ReleaseCheck(t) ==
    /\ dp_pc[t] = "rel_check"
    /\ dp_pc' = [dp_pc EXCEPT ![t] = IF HasRoom THEN "rel_put" ELSE "rel_quit"]
    /\ UNCHANGED << cacheAll, allocOwn, besidesPool, lazy, max_drivers,
                    initialized, pool_q, pool_lock, held, fill_k, quits, fills >>

\* release_driver: self.pool.put(driver)
ReleasePut(t) ==
    /\ dp_pc[t] = "rel_put"
    /\ pool_q' = Append(pool_q, held[t])
    /\ held' = [held EXCEPT ![t] = NoDriver]
    /\ pool_lock' = NoHolder
    /\ dp_pc' = [dp_pc EXCEPT ![t] = "done"]
    /\ UNCHANGED << cacheAll, allocOwn, besidesPool, lazy, max_drivers,
                    initialized, fill_k, quits, fills >>

\* release_driver: driver.quit()
ReleaseQuit(t) ==
    /\ dp_pc[t] = "rel_quit"
    /\ quits' = [quits EXCEPT ![held[t]] = @ + 1]
    /\ held' = [held EXCEPT ![t] = NoDriver]
    /\ pool_lock' = NoHolder
    /\ dp_pc' = [dp_pc EXCEPT ![t] = "done"]
    /\ UNCHANGED << cacheAll, allocOwn, besidesPool, lazy, max_drivers,
                    initialized, pool_q, fill_k, fills >>

release_driver(t) ==
    \/ ReleaseLock(t)
    \/ ReleaseCheck(t)
    \/ ReleasePut(t)
    \/ ReleaseQuit(t)

\* __exit__ calls close_all
Exit ==
    /\ dp_pc[Closer] = "inside"
    /\ dp_pc' = [dp_pc EXCEPT ![Closer] = "close_check"]
    /\ UNCHANGED << cacheAll, allocOwn, besidesPool, lazy, max_drivers,
                    initialized, pool_q, pool_lock, held, fill_k, quits, fills >>

\* close_all is called on the pool outside a with block
CloseDirect ==
    /\ dp_pc[Closer] = "start"
    /\ dp_pc' = [dp_pc EXCEPT ![Closer] = "close_check"]
    /\ UNCHANGED << cacheAll, allocOwn, besidesPool, lazy, max_drivers,
                    initialized, pool_q, pool_lock, held, fill_k, quits, fills >>

\* close_all: while not self.pool.empty(); after the loop the lazy pool
\* goes on to reset its flag and the other one returns
CloseCheck ==
    /\ dp_pc[Closer] = "close_check"
    /\ dp_pc' = [dp_pc EXCEPT ![Closer] =
                    IF pool_q # <<>> THEN "close_take"
                    ELSE IF lazy THEN "close_reset" ELSE "exited"]
    /\ UNCHANGED << cacheAll, allocOwn, besidesPool, lazy, max_drivers,
                    initialized, pool_q, pool_lock, held, fill_k, quits, fills >>

\* src/scrapper/driver_pool.py line 63: self._initialized = False
CloseReset ==
    /\ dp_pc[Closer] = "close_reset"
    /\ initialized' = FALSE
    /\ dp_pc' = [dp_pc EXCEPT ![Closer] = "exited"]
    /\ UNCHANGED << cacheAll, allocOwn, besidesPool, lazy, max_drivers,
                    pool_q, pool_lock, held, fill_k, quits, fills >>

\* close_all: driver = self.pool.get(), which waits while the queue is empty,
\* and driver.quit()
CloseTake ==
    /\ dp_pc[Closer] = "close_take"
    /\ pool_q # <<>>
    /\ quits' = [quits EXCEPT ![Head(pool_q)] = @ + 1]
    /\ pool_q' = Tail(pool_q)
    /\ dp_pc' = [dp_pc EXCEPT ![Closer] = "close_check"]
    /\ UNCHANGED << cacheAll, allocOwn, besidesPool, lazy, max_drivers,
                    initialized, pool_lock, held, fill_k, fills >>

close_all ==
    \/ Exit
    \/ CloseDirect
    \/ CloseCheck
    \/ CloseTake
    \/ CloseReset

\* the other components are not running
SideOff == RankOff /\ InjectOff /\ ScrapeOff /\ PoolOff

(* ---------------------------- specification ---------------------------- *)

Init == CacheInit /\ AllocOff /\ SideOff

Next ==
    \/ Tick
    \/ set_session_maker
    \/ \E r \in Readers : get_previews(r)
    \/ \E t \in Bg : _run_update_in_background(t)
    \/ \E t \in Forcers : force_update(t)

Spec == Init /\ [][Next]_vars

InitAlloc == CacheInit /\ AllocRequest /\ SideOff

NextAlloc == get_teasers_for_widgets

\* the scheduler lets every started refresh thread run on
Fairness == \A t \in Bg : WF_vars(_run_update_in_background(t))

\* the cache once main has handed it the session factory
CacheStarted ==
    /\ now = StartTime
    /\ session_maker = TRUE
    /\ heap = [x \in Refs |-> <<>>]
    /\ previews = 1
    /\ last_updated = 0
    /\ update_lock = NoThread
    /\ pc = [t \in Threads |->
               IF t \in Bg THEN "unborn" ELSE "idle"]
    /\ seen_lu = [r \in Readers |-> 0]
    /\ ret = [r \in Readers |-> NoRef]
    /\ nspawned = 0
    /\ observed = [t \in Bg |-> 0]
    /\ rows = [t \in Updaters |-> <<>>]
    /\ newp = [t \in Updaters |-> NoRef]
    /\ idx = [t \in Updaters |-> 1]
    /\ exc = [t \in Updaters |-> FALSE]
    /\ pre = [t \in Updaters |-> << <<>>, 0 >>]
    /\ bg_refreshes = [v \in 0..MaxTime |-> 0]
    /\ installed = { <<>> }

InitLive == CacheStarted /\ AllocOff /\ SideOff

NextLive ==
    \/ \E r \in Readers : get_previews(r)
    \/ \E t \in Bg : _run_update_in_background(t)
    \/ \E t \in Forcers : force_update(t)

SpecLive == InitLive /\ [][NextLive]_vars /\ Fairness

SpecAlloc == InitAlloc /\ [][NextAlloc]_vars

InitBoundary == CacheInit /\ RawRequest /\ SideOff

NextBoundary ==
    \/ ValidateRequest
    \/ get_teasers_for_widgets

SpecBoundary == InitBoundary /\ [][NextBoundary]_vars

InitRank == CacheInit /\ RankRequest /\ InjectOff /\ ScrapeOff /\ PoolOff

NextRank == RankCall

SpecRank == InitRank /\ [][NextRank]_vars

InitInject ==
    CacheInit /\ AllocOff /\ RankOff /\ InjectRequest /\ ScrapeOff /\ PoolOff

NextInject == inject_in_article_teasers

SpecInject == InitInject /\ [][NextInject]_vars

InitScrape ==
    CacheInit /\ AllocOff /\ RankOff /\ InjectOff /\ ProcessSourceStart /\ PoolOff

NextScrape == process_source

SpecScrape == InitScrape /\ [][NextScrape]_vars

InitPool ==
    CacheInit /\ AllocOff /\ RankOff /\ InjectOff /\ ScrapeOff /\ PoolCreated

\* the pool in use: __enter__, get_driver and release_driver
NextPoolUse ==
    \/ Enter
    \/ _initialize_pool(Closer)
    \/ \E t \in Callers : get_driver(t)
    \/ \E t \in Callers : release_driver(t)

SpecPoolUse == InitPool /\ [][NextPoolUse]_vars

\* the pool as a context manager: the above, and __exit__
NextPool ==
    \/ NextPoolUse
    \/ close_all

SpecPool == InitPool /\ [][NextPool]_vars

(* ---------------------------- claims: the cache ------------------------ *)

\* the thread is inside _update_cache_from_db
InUpdate(t) == pc[t] \in {"enter", "build", "stamp"}

\* C1: every list a get_previews caller holds is a complete snapshot, one
\* that a refresh installed (or the initial empty one); never a list that is
\* half built or that mixes the rows of two refreshes.
C1_SnapshotAtomicity ==
    \A r \in Readers : ret[r] # NoRef => heap[ret[r]] \in installed

\* two callers hold different complete snapshots while a further refresh is
\* half way through building its list
C1_Witness ==
    \E r1, r2 \in Readers :
        /\ ret[r1] # NoRef /\ ret[r2] # NoRef
        /\ heap[ret[r1]] # heap[ret[r2]]
        /\ \E t \in Updaters :
              pc[t] = "build" /\ idx[t] = 2 /\ Len(rows[t]) = 2

\* C2: at most one thread is inside _update_cache_from_db, and it is the
\* holder of update_lock.
C2_SingleRefresh ==
    \A t, u \in Updaters :
        InUpdate(t) /\ InUpdate(u) => t = u /\ update_lock = t

\* a background thread is refreshing while a second background thread is
\* about to try the lock and force_update has not got it yet
C2_Witness ==
    \E t, u \in Bg, f \in Forcers :
        pc[t] = "build" /\ pc[u] = "start" /\ pc[f] = "idle"

\* C3: for one expiry (one value of last_updated that get_previews callers
\* found too old) the background threads run at most one store query.
C3_OneRefreshPerExpiry ==
    \A v \in 0..MaxTime : bg_refreshes[v] <= 1

\* C4: a get_previews call that has begun can always take its next step,
\* whoever holds update_lock; it never becomes the holder; and what it
\* returns is the list self.previews refers to at that moment.
C4_NeverBlocks ==
    /\ [](\A r \in Readers :
            /\ pc[r] # "done" => ENABLED get_previews(r)
            /\ update_lock # r)
    /\ [][\A r \in Readers :
            pc[r] = "ret" /\ pc'[r] = "done" => ret'[r] = previews]_vars

\* a caller has been handed the stale empty list while a refresh that has
\* already fetched its rows still holds the lock
C4_Witness ==
    \E r \in Readers, t \in Updaters :
        /\ pc[r] = "done" /\ ret[r] = previews /\ heap[previews] = <<>>
        /\ update_lock = t /\ pc[t] = "build"

\* C5: when a refresh that raised gives up the lock, previews and
\* last_updated are what they were when the refresh began, and the lock is
\* free; until then they have not changed either.
C5_FailedRefreshKeepsState ==
    /\ [](\A t \in Updaters :
            pc[t] = "release" /\ exc[t] =>
                heap[previews] = pre[t][1] /\ last_updated = pre[t][2])
    /\ [][\A t \in Updaters :
            pc[t] = "release" /\ exc[t] /\ pc'[t] = "done" =>
                /\ heap'[previews'] = pre[t][1]
                /\ last_updated' = pre[t][2]
                /\ update_lock' = NoThread]_vars

\* a background refresh and a force_update have both raised at some point
\* after an earlier refresh had filled the cache
C5_Witness ==
    \E t \in Updaters :
        /\ pc[t] = "release" /\ exc[t]
        /\ pre[t][1] # <<>> /\ pre[t][2] # 0

(* ---------------------------- claims: the allocator -------------------- *)

\* the ids of the items in a widgets map, one per slot
SlotIds(w) == { w[n].id : n \in DOMAIN w }

\* C6: in the widgets map, while it is built and when it is returned, no
\* preview id sits in two slots.
C6_NoDoubleAllocation ==
    /\ \A m, n \in DOMAIN response_widgets :
          response_widgets[m].id = response_widgets[n].id => m = n
    /\ \A m, n \in DOMAIN response.widgets :
          response.widgets[m].id = response.widgets[n].id => m = n

\* the candidates repeat an id, and the call has returned two filled slots
C6_Witness ==
    /\ response.returned
    /\ Cardinality(DOMAIN response.widgets) = 2
    /\ \E x, y \in DOMAIN all_teaser_items :
          x # y /\ all_teaser_items[x].id = all_teaser_items[y].id

\* C7: no id of seen_ids_page is the id of an item of the widgets map; when
\* every candidate's id is in seen_ids_page the map is empty.
C7_PageExclusion ==
    /\ SlotIds(response_widgets) \cap seen_on_page_set = {}
    /\ SlotIds(response.widgets) \cap seen_on_page_set = {}
    /\ (apc \in {"loop", "done"}
          /\ \A x \in DOMAIN all_teaser_items :
                all_teaser_items[x].id \in seen_on_page_set)
       => DOMAIN response_widgets = {}

\* a candidate is in both seen lists, the inventory ran out before every
\* slot was filled, and still a slot was filled
C7_Witness ==
    /\ response.returned
    /\ \E x \in DOMAIN all_teaser_items :
          all_teaser_items[x].id \in seen_on_page_set \cap seen_long_term_set
    /\ DOMAIN response.widgets # {}
    /\ DOMAIN response.widgets # { req_widgets[x].name : x \in DOMAIN req_widgets }

\* C8: whenever an item of the reusable pool is assigned, the iterator of
\* the fresh pool is exhausted and every item of the fresh pool has been
\* assigned before (its id has been served).
C8_FreshBeforeReusable ==
    \A k \in DOMAIN assign_log :
        assign_log[k].pool = "reusable" =>
            /\ available_pos = Len(available_teasers)
            /\ \A x \in DOMAIN available_teasers :
                  \E j \in 1..(k - 1) :
                      /\ assign_log[j].id = available_teasers[x].id
                      /\ assign_log[j].pool = "fresh"

\* a fresh item was assigned first and a reusable one after it
C8_Witness ==
    /\ apc = "done"
    /\ \E j, k \in DOMAIN assign_log :
          j < k /\ assign_log[j].pool = "fresh" /\ assign_log[k].pool = "reusable"

\* C9: with limit None and offset 0, a category that no item of a non-empty
\* snapshot has gives the whole snapshot; a category that some item has gives
\* exactly the items of that category, in snapshot order.
C9_CategoryFallback ==
    apc \in {"pools", "loop", "done"} =>
        LET Matches(item) == item.category = req_category
            someMatch == \E x \in DOMAIN snapshot : Matches(snapshot[x])
        IN  /\ (snapshot # <<>> /\ ~someMatch) => all_teaser_items = snapshot
            /\ someMatch => all_teaser_items = SelectSeq(snapshot, Matches)

\* the ranker fell back to a snapshot of several categories
C9_Witness ==
    /\ apc = "pools"
    /\ req_category = "z"
    /\ Len(all_teaser_items) = MaxSnapLen
    /\ \E x, y \in DOMAIN snapshot : snapshot[x].category # snapshot[y].category

\* the last n elements of a list
LastN(q, n) == IF Len(q) <= n THEN q ELSE SubSeq(q, Len(q) - n + 1, Len(q))

\* C10: the response's seen_ids_long_term is the request's list followed by
\* the newly served ids, cut to its last 200 entries.
C10_LongTermUpdated ==
    response.returned =>
        response.seen_ids_long_term =
            LastN(seen_ids_long_term \o newly_served, MaxSeenIds)

(* ---------------------------- claims: the request boundary ------------- *)

C16_BoundaryValidation ==
    LET keysKnown == \A x \in DOMAIN req_widgets :
                         Lower(req_widgets[x].name) \in allowed_keys
        keysGenerated == \A x \in DOMAIN req_widgets :
                             \E c \in 0..1 :
                                 req_widgets[x].name = InArticleWidgetName(c)
        qtyFine == /\ req_widgets # <<>>
                   /\ \A x \in DOMAIN req_widgets : req_widgets[x].qty >= 1
                   /\ SumQty(req_widgets) <= MaxTotalTeasers
        seenFine == /\ validate_seen_ids(seen_ids_page)
                    /\ validate_seen_ids(seen_ids_long_term)
                    /\ validate_full_request(seen_ids_page, seen_ids_long_term)
    IN  /\ apc \notin {"validate", "rejected"} =>
              keysKnown /\ qtyFine /\ seenFine
        /\ (keysGenerated /\ qtyFine /\ seenFine) => apc # "rejected"

(* ---------------------------- claims: allocation order ----------------- *)

\* C12: slots are served in a fixed priority order of their names (sidebar
\* "s" before in-article "i" before list "l"), whatever the order of the
\* keys in the request: of two teasers handed out, the earlier one, which is
\* the higher ranked of its pool, never goes to the slot of lower priority.
C12_PriorityOrder ==
    LET SlotPriority(n) == CASE n = "s" -> 1 [] n = "i" -> 2 [] OTHER -> 3
    IN  \A j, k \in DOMAIN assign_log :
            j < k => SlotPriority(assign_log[j].widget)
                         <= SlotPriority(assign_log[k].widget)

\* C13: the newly_served_ids of a response are exactly the ids of the items
\* in its widgets map that are not in seen_ids_long_term, for quantities
\* above 1 as well.
C13_NewlyServedExact ==
    response.returned =>
        response.newly_served_ids =
            SlotIds(response.widgets) \ seen_long_term_set

\* some widget the outer loop has left did not get its full quantity
UnmetDemand ==
    \E x \in DOMAIN req_widgets :
        /\ x < w_idx
        /\ Cardinality({ k \in DOMAIN assign_log :
                            assign_log[k].widget = req_widgets[x].name })
               < req_widgets[x].qty

\* C14: when both pools run out before the demand is met the call goes on
\* to its return (no step of it is ever stuck), the map it returns is the
\* partial one, and from the first teaser that could not be handed out no
\* further teaser is handed out: the filled slots are a prefix of the
\* processing order.
C14_PartialPrefix ==
    /\ [](apc \in {"rank", "pools", "loop"} => ENABLED get_teasers_for_widgets)
    /\ [](\A x, y \in DOMAIN req_widgets :
            x < y /\ req_widgets[y].name \in DOMAIN response_widgets
                => req_widgets[x].name \in DOMAIN response_widgets)
    /\ [][UnmetDemand =>
            assign_log' = assign_log /\ response_widgets' = response_widgets]_vars
    /\ [](response.returned => response.widgets = response_widgets)

\* both pools were used and ran out: the first of two widgets is in the
\* returned map, the second is not
C14_Witness ==
    /\ response.returned
    /\ Len(req_widgets) = 2
    /\ DOMAIN response.widgets = { req_widgets[1].name }
    /\ UnmetDemand
    /\ \E k \in DOMAIN assign_log : assign_log[k].pool = "reusable"
    /\ \E k \in DOMAIN assign_log : assign_log[k].pool = "fresh"

\* C18: a call of get_teasers_for_widgets, the ranker's call within it
\* included, changes neither the snapshot list nor any field of a cached
\* item.
C18_ServingLeavesCacheUnchanged ==
    [][snapshot' = snapshot /\ slug_written' = slug_written]_vars

\* the candidates whose id is in neither seen list, in candidate order
FreshPool ==
    LET Unseen(item) ==
            item.id \notin Range(seen_ids_page) \cup Range(seen_ids_long_term)
    IN  SelectSeq(all_teaser_items, Unseen)

\* a list without the rows whose id an earlier row has
FirstOfEachId(q) ==
    LET IsFirst(item) ==
            \A x, y \in DOMAIN q :
                (q[x] = item /\ q[y].id = item.id) => x <= y
    IN  SelectSeq(q, IsFirst)

AllQuantitiesOne == \A x \in DOMAIN req_widgets : req_widgets[x].qty = 1

\* C19: every quantity being 1 and the fresh pool holding at least as many
\* distinct items as there are slots, the k-th slot processed gets the k-th
\* item of the fresh pool, and newly_served_ids is the set of the ids of
\* these items. An item is a preview: a row that repeats the id of an
\* earlier row (the same preview under another category) is not a further
\* item.
C19_KthSlotKthFreshId ==
    (/\ response.returned
     /\ AllQuantitiesOne
     /\ Len(FirstOfEachId(FreshPool)) >= Len(req_widgets))
    => /\ \A k \in DOMAIN req_widgets :
             /\ req_widgets[k].name \in DOMAIN response.widgets
             /\ response.widgets[req_widgets[k].name] =
                    FirstOfEachId(FreshPool)[k]
       /\ response.newly_served_ids =
             { FirstOfEachId(FreshPool)[k].id : k \in DOMAIN req_widgets }

\* two slots of quantity 1 were filled from a fresh pool whose second row
\* repeats the id of the first, while a seen candidate was passed over
C19_Witness ==
    /\ response.returned
    /\ AllQuantitiesOne
    /\ Len(req_widgets) = 2
    /\ Len(FreshPool) = 3
    /\ FreshPool[1].id = FreshPool[2].id
    /\ Cardinality(DOMAIN response.widgets) = 2

\* every candidate has been seen long ago and none is on the page
AllCandidatesLongTermOnly ==
    \A x \in DOMAIN all_teaser_items :
        /\ all_teaser_items[x].id \in Range(seen_ids_long_term)
        /\ all_teaser_items[x].id \notin Range(seen_ids_page)

\* C20: newly_served_ids never holds an id of seen_ids_long_term; and when
\* every candidate id is in seen_ids_long_term and none in seen_ids_page,
\* the fresh pool is empty, the reusable pool is the candidate list, the
\* teasers are handed out from it in candidate order (the first one is the
\* first candidate) and nothing is reported as newly served.
C20_ReusableNotNew ==
    /\ Range(newly_served) \cap Range(seen_ids_long_term) = {}
    /\ response.newly_served_ids \cap Range(seen_ids_long_term) = {}
    /\ (apc \in {"loop", "done"} /\ AllCandidatesLongTermOnly) =>
          /\ available_teasers = <<>>
          /\ reusable_teasers = all_teaser_items
          /\ Len(assign_log) <= Len(FirstOfEachId(all_teaser_items))
          /\ \A k \in DOMAIN assign_log :
                /\ assign_log[k].pool = "reusable"
                /\ assign_log[k].id = FirstOfEachId(all_teaser_items)[k].id
          /\ newly_served = <<>>

\* two slots were filled from the reusable pool alone and the response
\* reports nothing as new
C20_Witness ==
    /\ response.returned
    /\ AllCandidatesLongTermOnly
    /\ Len(all_teaser_items) >= 2
    /\ Cardinality(DOMAIN response.widgets) = 2
    /\ response.newly_served_ids = {}

(* ---------------------------- claims: startup and refresh -------------- *)

\* C15: before the first get_previews call starts, the session factory has
\* been set and a force_update has run to its end; and, the store having
\* content, no caller is handed the initial empty list.
C15_StartupRefresh ==
    \A r \in Readers :
        /\ pc[r] # "idle" =>
              session_maker /\ \E f \in Forcers : pc[f] = "done"
        /\ ret[r] # NoRef => heap[ret[r]] # <<>>

RankBase ==
    LET Matches(item) == item.category = req_category
    IN  IF req_category # NoCategory /\ SelectSeq(snapshot, Matches) # <<>>
          THEN SelectSeq(snapshot, Matches)
          ELSE snapshot

\* C21: the list get_ranked_previews returns is the run of the filtered (or
\* fallback) list that starts at index offset, in the same order, cut after
\* limit items when a limit is given; whether to fall back is decided on
\* the filtered list, not on the page.
C21_ContiguousSlice ==
    rk_pc = "done" =>
        LET rest == IF Len(RankBase) > rk_offset
                      THEN Len(RankBase) - rk_offset ELSE 0
            size == IF rk_limit # NoLimit /\ rk_limit < rest
                      THEN rk_limit ELSE rest
        IN  /\ Len(rk_result) = size
            /\ \A k \in 1..size : rk_result[k] = RankBase[rk_offset + k]

\* the category has fewer items than the offset skips while the snapshot has
\* more: the page is empty, there is no fallback
C21_Witness ==
    /\ rk_pc = "done"
    /\ req_category = "a"
    /\ rk_offset = 1 /\ rk_limit = 1
    /\ Len(RankBase) = 1 /\ Len(snapshot) = 3
    /\ rk_result = <<>>

(* ---------------------------- claims: fallback and duplicates ---------- *)

\* the snapshot has an item of the requested category
CategoryHasCandidates ==
    \E x \in DOMAIN snapshot : snapshot[x].category = req_category

\* C22: when no item has the requested category the two pools are built
\* from the whole snapshot; when some item has it and every such item's id
\* is in seen_ids_page, nothing of another category is taken instead and
\* the widgets map stays empty, whatever else the snapshot holds.
C22_FallbackBeforeExclusion ==
    apc \in {"loop", "done"} =>
        LET InCategory(item) == item.category = req_category
            Unseen(item) ==
                item.id \notin Range(seen_ids_page) \cup Range(seen_ids_long_term)
            Again(item) ==
                /\ item.id \in Range(seen_ids_long_term)
                /\ item.id \notin Range(seen_ids_page)
        IN  /\ (req_category # NoCategory /\ ~CategoryHasCandidates) =>
                  /\ available_teasers = SelectSeq(snapshot, Unseen)
                  /\ reusable_teasers = SelectSeq(snapshot, Again)
            /\ (/\ CategoryHasCandidates
                /\ \A x \in DOMAIN snapshot :
                      InCategory(snapshot[x]) =>
                          snapshot[x].id \in Range(seen_ids_page))
               => /\ response_widgets = <<>>
                  /\ response.widgets = <<>>
                  /\ assign_log = <<>>

\* every item of the requested category is on the page already, an item of
\* another category has never been seen, and the response is empty
C22_Witness ==
    /\ response.returned
    /\ CategoryHasCandidates
    /\ \A x \in DOMAIN snapshot :
          snapshot[x].category = req_category =>
              snapshot[x].id \in Range(seen_ids_page)
    /\ \E x \in DOMAIN snapshot :
          /\ snapshot[x].category # req_category
          /\ snapshot[x].id \notin Range(seen_ids_page) \cup Range(seen_ids_long_term)
    /\ response.widgets = <<>>

(* ---------------------------- claims: refresh failures ----------------- *)

\* C23: a background refresh that raised leaves the callers alone (what a
\* caller is handed meanwhile is the snapshot from before that refresh, and
\* its call can always go on); when the thread ends, the lock is free and
\* the cache is as stale as before; a caller that finds the cache stale and
\* the lock free starts a refresh thread, whatever failed before; a thread
\* whose query and build went through puts its list in place unless it
\* raises; and, the scheduler being fair to the refresh threads, every
\* thread that was started comes to its end.
C23_FailedRefreshRetried ==
    /\ [](\A t \in Bg, r \in Readers :
            (pc[t] = "release" /\ exc[t]) =>
                /\ pc[r] # "done" => ENABLED get_previews(r)
                /\ (pc[r] = "done" /\ ret[r] = previews) =>
                       heap[ret[r]] = pre[t][1])
    /\ [][\A t \in Bg :
            (pc[t] = "release" /\ exc[t] /\ pc'[t] = "done") =>
                /\ update_lock' = NoThread
                /\ last_updated' = pre[t][2]]_vars
    /\ [][\A r \in Readers :
            (pc[r] = "chklock" /\ pc'[r] = "ret" /\ update_lock = NoThread) =>
                /\ nspawned' = nspawned + 1
                /\ pc'[[kind |-> "bg", n |-> nspawned + 1]] = "start"]_vars
    /\ [][\A t \in Bg :
            (pc[t] = "build" /\ idx[t] > Len(rows[t]) /\ pc'[t] # "build") =>
                \/ exc'[t]
                \/ pc'[t] = "stamp" /\ previews' = newp[t]]_vars
    /\ <>[](\A t \in Bg : pc[t] \in {"unborn", "done"})

\* a background refresh has raised and ended; a thread started later has
\* put a new snapshot in place, while a caller still holds the old one
C23_Witness ==
    \E t, u \in Bg, r \in Readers :
        /\ t.n < u.n
        /\ pc[t] = "done" /\ exc[t]
        /\ pc[u] = "stamp" /\ heap[previews] # <<>>
        /\ pc[r] = "done" /\ heap[ret[r]] = <<>>


(* ---------------------------- claims: in-article teasers --------------- *)

NoName == "none"

\* per paragraph block of B, the name of the placeholder that stands
\* directly after it, or NoName
FollowedBy(B) ==
    LET IsParagraphAt(j) == B[j].kind = "paragraph"
        at == SelectSeq([j \in 1..Len(B) |-> j], IsParagraphAt)
    IN  [k \in 1..Len(at) |->
            IF at[k] < Len(B) /\ B[at[k] + 1].kind = "placeholder"
            THEN B[at[k] + 1].name
            ELSE NoName]

IsPlaceholder(b) == b.kind = "placeholder"
IsParagraph(b) == b.kind = "paragraph"

\* the names of the placeholders of the result, in order
PlaceholderNames == SelectSeq(processed_blocks, IsPlaceholder)

\* "i0" and the two hexadecimal digits of c, for c below 256
TwoDigitName(c) ==
    "i0" \o HexDigits[(c \div 16) + 1] \o HexDigits[(c % 16) + 1]

TwoDigitNames == {TwoDigitName(c) : c \in 0..255}

InjectDone == inj_pc = "done" /\ raw_paragraphs # << "" >>

\* where the placeholders stand: after paragraph k exactly when k is even
\* and more than one paragraph follows; every placeholder stands directly
\* after a paragraph, and the paragraphs keep their order
PlaceholderPositions ==
    LET n == Len(paragraphs)
        F == FollowedBy(processed_blocks)
        paras == SelectSeq(processed_blocks, IsParagraph)
    IN  /\ Len(F) = n
        /\ \A k \in 1..n : paras[k].text = paragraphs[k]
        /\ \A k \in 1..n : (F[k] # NoName) <=> (k % 2 = 0 /\ n - k > 1)
        /\ Len(PlaceholderNames) = Cardinality({k \in 1..n : F[k] # NoName})
        /\ n >= 1 => F[n] = NoName
        /\ n >= 2 => F[n - 1] = NoName

PlaceholdersDistinct ==
    \A a, b \in 1..Len(PlaceholderNames) :
        PlaceholderNames[a].name = PlaceholderNames[b].name => a = b

DrawingPool ==
    IF \E j \in (available_pos + 1)..Len(available_teasers) :
           available_teasers[j].id \notin served_on_this_request
      THEN [items |-> available_teasers, pos |-> available_pos]
      ELSE [items |-> reusable_teasers, pos |-> reusable_pos]

\* the item the iterator of the drawing pool gives next has been served
DuplicateUpNext ==
    /\ apc = "loop"
    /\ w_idx <= Len(req_widgets)
    /\ DrawingPool.pos < Len(DrawingPool.items)
    /\ DrawingPool.items[DrawingPool.pos + 1].id \in served_on_this_request

\* C25: when the item a round draws repeats an id that has been served, the
\* round does not assign it; while the pool has an item that has not been
\* served the round assigns the first such item to the widget the round is
\* for; no id is assigned twice.
C25_DuplicateSkipped ==
    [][DuplicateUpNext =>
        LET P == DrawingPool.items
            at == DrawingPool.pos
            Later == {j \in (at + 2)..Len(P) :
                         P[j].id \notin served_on_this_request}
        IN  /\ \A k \in (Len(assign_log) + 1)..Len(assign_log') :
                  assign_log'[k].id \notin served_on_this_request
            /\ Later # {} =>
                  /\ Len(assign_log') = Len(assign_log) + 1
                  /\ assign_log'[Len(assign_log')].widget = req_widgets[w_idx].name
                  /\ \E j \in Later :
                        /\ \A k \in Later : j <= k
                        /\ assign_log'[Len(assign_log')].id = P[j].id
                        /\ response_widgets'[req_widgets[w_idx].name] = P[j]
            /\ \A m, n \in DOMAIN assign_log' :
                  assign_log'[m].id = assign_log'[n].id => m = n]_vars

\* the second row of the fresh pool repeats the id of the first: the first
\* slot got the first row, the second slot the third
C25_Witness ==
    /\ Len(available_teasers) = 3
    /\ available_teasers[2].id = available_teasers[1].id
    /\ available_pos = 3
    /\ Len(assign_log) = 2
    /\ assign_log[1].id = available_teasers[1].id
    /\ assign_log[2].id = available_teasers[3].id
    /\ assign_log[1].widget # assign_log[2].widget
    /\ response_widgets[assign_log[2].widget] = available_teasers[3]


(* ---------------------------- claims: scraping articles ---------------- *)

\* scrape_articles has returned to process_source
ScrapeReturned == ps_pc \in {"upsert", "mark", "commit", "done", "next"} /\ links # <<>>

\* the entries of a list of articles that are for the link
EntriesFor(articles, l) == { k \in DOMAIN articles : articles[k].link = l }

\* C26: is_processed and the article of a link become durable in one commit
\* or not at all; a commit marks only links whose scrape returned an article
\* and stores the article of each of them; a link whose scrape returned
\* nothing or raised stays unprocessed and is among the links the next run
\* reads.
C26_MarkedWithArticle ==
    /\ [](/\ db_processed = db_articles
          /\ \A l \in Range(links) \cap db_processed :
                /\ outcome[l] = "article"
                /\ \E k \in DOMAIN commits :
                      l \in commits[k].articles /\ l \in commits[k].processed
          /\ ps_pc \in {"done", "next"} => tx_processed = {} /\ tx_articles = {}
          /\ ps_pc = "next" =>
                \A l \in Range(links) :
                    outcome[l] # "article" =>
                        l \notin db_processed /\ l \in Range(links_next_run))
    /\ [][(db_processed' # db_processed \/ db_articles' # db_articles) =>
             /\ ps_pc = "commit"
             /\ db_processed' \ db_processed = db_articles' \ db_articles
             /\ \A l \in db_processed' \ db_processed : outcome[l] = "article"]_vars

\* of three links one scrape raised and two returned an article: the two
\* were committed together with their articles, the third is read again
C26_Witness ==
    /\ ps_pc = "next"
    /\ Len(links) = 3
    /\ Len(commits) = 1
    /\ Cardinality(commits[1].processed) = 2
    /\ commits[1].articles = commits[1].processed
    /\ \E l \in Range(links) :
          outcome[l] = "raise" /\ links_next_run = << l >>

\* C27: when scrape_articles returns, every task has ended, and the list it
\* returns has one entry for every link whose scrape_article returned an
\* article and none for a link whose scrape_article returned None or
\* raised, whatever the order in which the workers ran.
C27_OneEntryPerArticle ==
    ScrapeReturned =>
        /\ \A l \in Range(links) :
              /\ task_pc[l] = "finished"
              /\ outcome[l] \in Outcomes
              /\ Cardinality(EntriesFor(parsed_articles, l)) =
                     IF outcome[l] = "article" THEN 1 ELSE 0
        /\ \A k \in DOMAIN parsed_articles :
              parsed_articles[k].link \in Range(links)
        /\ parsed_articles = results
        /\ results_lock = NoLink

\* the first link's scrape raised and the other two returned an article:
\* the list holds the two articles, in the reverse of the order of the links
C27_Witness ==
    /\ ScrapeReturned
    /\ Len(links) = 3
    /\ outcome[links[1]] = "raise"
    /\ parsed_articles = << Article(links[3]), Article(links[2]) >>


(* ---------------------------- claims: the driver pool ------------------ *)

\* the drivers some caller holds
HeldDrivers == { held[t] : t \in Callers } \ {NoDriver}

\* C28: under every interleaving of get_driver and release_driver the queue
\* holds at most max_drivers drivers, a driver released while the queue is
\* full is quit and not queued, and no driver is held by two callers, or by
\* a caller while it is in the queue.
C28_PoolBounded ==
    /\ [](/\ Len(pool_q) <= max_drivers
          /\ \A t, u \in Callers :
                (held[t] # NoDriver /\ held[t] = held[u]) => t = u
          /\ \A k \in DOMAIN pool_q : pool_q[k] \notin HeldDrivers
          /\ \A j, k \in DOMAIN pool_q : pool_q[j] = pool_q[k] => j = k
          /\ \A d \in HeldDrivers : quits[d] = 0)
    /\ [][\A t \in Callers :
            (dp_pc[t] = "rel_check" /\ Len(pool_q) >= max_drivers
                 /\ dp_pc'[t] # "rel_check") =>
                dp_pc'[t] = "rel_quit"]_vars
    /\ [][\A t \in Callers :
            (dp_pc[t] = "rel_quit" /\ dp_pc'[t] = "done") =>
                /\ pool_q' = pool_q
                /\ quits'[held[t]] = 1]_vars

\* two callers held a driver each at the same time; the queue took one back
\* and is full, the other driver was quit
C28_Witness ==
    /\ \A t \in Callers : dp_pc[t] = "done"
    /\ Len(quits) = 2
    /\ Len(pool_q) = max_drivers
    /\ \E d \in DOMAIN quits : quits[d] = 1 /\ d \notin Range(pool_q)

\* every caller that called get_driver has returned from release_driver
AllReleased == \A t \in Callers : dp_pc[t] \in {"start", "done"}

\* C29: no driver is quit twice, and once __exit__ has returned and every
\* get_driver has had its release_driver, every driver the pool created has
\* been quit, also when a release_driver ran while close_all did.
C29_EveryDriverQuitOnce ==
    ~lazy =>
        /\ \A d \in DOMAIN quits : quits[d] <= 1
        /\ (dp_pc[Closer] = "exited" /\ AllReleased) =>
               /\ pool_q = <<>>
               /\ \A d \in DOMAIN quits : quits[d] = 1

\* no caller has begun release_driver
NoneReleased ==
    \A t \in Callers : dp_pc[t] \notin {"rel_check", "rel_put", "rel_quit", "done"}

\* while no close_all has begun the lazy pool has been filled at most once,
\* with max_drivers drivers
InitialisedOnce ==
    lazy /\ ContextOpen =>
        /\ Len(fills) <= 1
        /\ \A k \in DOMAIN fills : fills[k] = max_drivers
        /\ initialized => Len(fills) = 1

\* C30: while the context is open the pool is filled at most once, with
\* max_drivers drivers, whichever threads make the first calls; the flag is
\* not set while the queue is empty and not reset while the queue holds
\* drivers, also when close_all runs while another thread initialises or
\* takes a driver.
C30_InitialisedConsistent ==
    /\ []InitialisedOnce
    /\ [][lazy /\ NoneReleased /\ ~initialized /\ initialized' =>
             pool_q' # <<>>]_vars
    /\ [][lazy /\ NoneReleased /\ initialized /\ ~initialized' =>
             pool_q' = <<>>]_vars

====
